---- MODULE Spec2Model ----
(***************************************************************************)
(* Render model of the demo page: the root component Home owns the two     *)
(* useState cells name and surname, renders Component1 and Component2,     *)
(* and the article walks through seven versions of it:                     *)
(*   plain       no memo on the leaves               (article section 1)   *)
(*   memo        React.memo on the leaves            (section 2.1)         *)
(*   inlineData  data={{}}                           (section 3)           *)
(*   constData   const data = {}                     (section 3)           *)
(*   useMemo     data = useMemo(..., [surname])      (section 3.1)         *)
(*   inlineFunc  useMemo data, func={() => undefined} (section 4)          *)
(*   final       useMemo data, useCallback func      (section 4.1)         *)
(* A JavaScript value is a record [kind, ref, v]: strings are compared by  *)
(* their characters, objects and functions by the reference they were      *)
(* allocated with.                                                         *)
(***************************************************************************)
EXTENDS Integers, Sequences, FiniteSets, TLC

MaxLen == 3
MaxEdits == 4

Alphabet == {"D", "o", "e"}

VARIABLES
    variant,        \* which version of Home / Component2 is mounted
    memo1,          \* whether Component1 is exported through React.memo
    name,           \* useState cell of Home
    surname,        \* useState cell of Home
    hooks,          \* the useMemo and useCallback slots of Home
    nextRef,        \* next fresh object/function reference
    props1,         \* props of the <Component1> element of the last Home render
    props2,         \* props of the <Component2> element of the last Home render
    prev1,          \* props Component1 was last rendered with (memoizedProps)
    prev2,          \* props Component2 was last rendered with (memoizedProps)
    out1,           \* output of the last run of Component1
    out2,           \* output of the last run of Component2
    homeRenders,    \* runs of Home
    c1Renders,      \* console.log lines of Component1
    c2Renders,      \* console.log lines of Component2
    event,          \* the change event handled last
    nameEdits,      \* change events handled by the name input
    surnameEdits    \* change events handled by the surname input

vars == <<variant, memo1, name, surname, hooks, nextRef, props1, props2, prev1,
          prev2, out1, out2, homeRenders, c1Renders, c2Renders, event,
          nameEdits, surnameEdits>>

Variants == {"plain", "memo", "inlineData", "constData", "useMemo", "inlineFunc", "final"}

UseMemoVariants == {"useMemo", "inlineFunc", "final"}

FreshDataVariants == {"inlineData", "constData"}

----------------------------------------------------------------------------
(* JavaScript values *)

Str(s) == [kind |-> "string", ref |-> 0, v |-> s]

Obj(r, content) == [kind |-> "object", ref |-> r, v |-> content]

Fn(r) == [kind |-> "function", ref |-> r, v |-> <<>>]

Undefined == [kind |-> "undefined", ref |-> 0, v |-> <<>>]

\* Object.is with objects compared by content instead of identity.
ObjectIsDeep(a, b) == a.kind = b.kind /\ a.v = b.v

\* Object.is: primitives by value, objects and functions by reference.
ObjectIs(a, b) ==
    /\ a.kind = b.kind
    /\ IF a.kind = "string" THEN a.v = b.v ELSE a.ref = b.ref

\* A comparison that checks the keys and forgets the values.
ShallowEqualKeysOnly(a, b) == DOMAIN a = DOMAIN b

\* React's shallowEqual, the default comparison of memo().
ShallowEqual(a, b) ==
    /\ DOMAIN a = DOMAIN b
    /\ \A k \in DOMAIN a : ObjectIs(a[k], b[k])

\* areHookInputsEqual of a hook whose dependencies never compare equal.
AreHookInputsEqualNever(nextDeps, prevDeps) == FALSE

\* React's areHookInputsEqual: the dependency lists, element by element.
AreHookInputsEqual(nextDeps, prevDeps) ==
    \A i \in 1..Len(nextDeps) : i <= Len(prevDeps) => ObjectIs(nextDeps[i], prevDeps[i])

----------------------------------------------------------------------------
(* JSON.stringify of an object whose values are strings *)

Quote(s) == <<"\"">> \o s \o <<"\"">>

RECURSIVE Members(_)
Members(pairs) ==
    IF pairs = <<>> THEN <<>>
    ELSE Quote(<<pairs[1][1]>>) \o <<":">> \o Quote(pairs[1][2])
         \o (IF Len(pairs) > 1 THEN <<",">> ELSE <<>>) \o Members(Tail(pairs))

JSONStringify(o) == <<"{">> \o Members(o.v) \o <<"}">>

----------------------------------------------------------------------------
(* The leaves: the render functions and the memo() guard *)

\* A Component1 that shows its prop without the last character.
Component1Truncating(props) ==
    [label |-> "Component1: ",
     p |-> <<"Name: ", SubSeq(props.name.v, 1, Len(props.name.v) - 1)>>]

Component1(props) == [label |-> "Component1: ", p |-> <<"Name: ", props.name.v>>]

Component2Basic(props) ==
    [label |-> "Component2: ", p |-> <<"Surname: ", props.surname.v>>, data |-> <<>>]

Component2(props) ==
    [label |-> "Component2: ",
     p |-> <<"Surname: ", props.surname.v>>,
     data |-> <<"Data: ", JSONStringify(props.data)>>]

RenderComponent2(v, props) ==
    IF v \in {"plain", "memo"} THEN Component2Basic(props) ELSE Component2(props)

\* An export without the memo() wrapper.
IsMemo2Never(v) == FALSE

\* Whether Component2 is exported through React.memo.
IsMemo2(v) == v # "plain"

\* A guard with the test inverted: it re-renders on equal props.
MemoInverted(isMemo, prevProps, nextProps) == ~isMemo \/ ShallowEqual(prevProps, nextProps)

\* memo(): TRUE when the render function has to run again.
Memo(isMemo, prevProps, nextProps) == ~isMemo \/ ~ShallowEqual(prevProps, nextProps)

----------------------------------------------------------------------------
(* Home: hooks and render function *)

NoHook == [mounted |-> FALSE, deps |-> <<>>, value |-> Undefined]

\* A dependency list that names the wrong cell.
UseMemoDepsName(n, s) == <<Str(n)>>

\* An empty dependency list.
UseMemoDepsEmpty(n, s) == <<>>

\* The dependency list of useMemo(() => ({ surname }), [surname]).
UseMemoDeps(n, s) == <<Str(s)>>

\* The create function of useMemo: () => ({ surname }).
UseMemoCreate(r, s) == Obj(r, << <<"surname", s>> >>)

\* A dependency list [surname] on the callback.
UseCallbackDepsSurname(n, s) == <<Str(s)>>

\* The dependency list of useCallback(() => undefined, []).
UseCallbackDeps(n, s) == <<>>

\* useMemo / useCallback: the slot after this render; value is what the hook returns.
UseHook(slot, fresh, deps) ==
    IF slot.mounted /\ AreHookInputsEqual(deps, slot.deps)
    THEN slot
    ELSE [mounted |-> TRUE, deps |-> deps, value |-> fresh]

\* One run of Home: the element props it creates, the hook slots and the allocator.
Home(v, n, s, hk, ref) ==
    LET memoSlot == IF v \in UseMemoVariants
                    THEN UseHook(hk.memo, UseMemoCreate(ref, s), UseMemoDeps(n, s))
                    ELSE hk.memo
        data == CASE v \in FreshDataVariants -> Obj(ref, <<>>)
                  [] v \in UseMemoVariants -> memoSlot.value
                  [] OTHER -> Undefined
        ref1 == IF data.kind = "object" /\ data.ref = ref THEN ref + 1 ELSE ref
        cbSlot == IF v = "final"
                  THEN UseHook(hk.callback, Fn(ref1), UseCallbackDeps(n, s))
                  ELSE hk.callback
        func == CASE v = "inlineFunc" -> Fn(ref1)
                  [] v = "final" -> cbSlot.value
                  [] OTHER -> Undefined
        \* the arrow function is allocated on every run, also when useCallback
        \* hands back the cached one
        ref2 == IF v \in {"inlineFunc", "final"} THEN ref1 + 1 ELSE ref1
    IN  [props1 |-> [name |-> Str(n)],
         props2 |-> CASE v \in {"plain", "memo"} -> [surname |-> Str(s)]
                      [] v \in FreshDataVariants \cup {"useMemo"} ->
                             [surname |-> Str(s), data |-> data]
                      [] OTHER -> [surname |-> Str(s), data |-> data, func |-> func],
         hooks |-> [memo |-> memoSlot, callback |-> cbSlot],
         nextRef |-> ref2]

----------------------------------------------------------------------------
(* The state cells and the input handlers *)

\* A setter that replaces the whole state and so resets the other cell.
SetNameReplaceAll(cells, v) == [name |-> v, surname |-> <<>>]

\* setName of useState.
SetName(cells, v) == [cells EXCEPT !.name = v]

\* setSurname of useState.
SetSurname(cells, v) == [cells EXCEPT !.surname = v]

\* onChange={(e) => setName(e.target.value)}
NameOnChange(cells, e) == SetName(cells, e.value)

\* onChange={(e) => setSurname(e.target.value)}
SurnameOnChange(cells, e) == SetSurname(cells, e.value)

\* What a user can turn the text of an input into with one edit: type a
\* character at the end, delete the last one, clear the field, or replace
\* the whole text by one character.  A change event is only dispatched when
\* the text differs from the value the controlled input shows.
InputValues(cur) ==
    ({Append(cur, c) : c \in IF Len(cur) < MaxLen THEN Alphabet ELSE {}}
        \cup {SubSeq(cur, 1, Len(cur) - 1)}
        \cup {<<>>}
        \cup {<<c>> : c \in Alphabet}) \ {cur}

\* The update cycle after a setter ran: Home runs with the new cells, then
\* each leaf runs unless its memo() guard finds the props equal.
Update(cells) ==
    LET r == Home(variant, cells.name, cells.surname, hooks, nextRef)
        run1 == Memo(memo1, prev1, r.props1)
        run2 == Memo(IsMemo2(variant), prev2, r.props2)
    IN  /\ name' = cells.name
        /\ surname' = cells.surname
        /\ hooks' = r.hooks
        /\ nextRef' = r.nextRef
        /\ props1' = r.props1
        /\ props2' = r.props2
        /\ homeRenders' = homeRenders + 1
        /\ prev1' = IF run1 THEN r.props1 ELSE prev1
        /\ out1' = IF run1 THEN Component1(r.props1) ELSE out1
        /\ c1Renders' = IF run1 THEN c1Renders + 1 ELSE c1Renders
        /\ prev2' = IF run2 THEN r.props2 ELSE prev2
        /\ out2' = IF run2 THEN RenderComponent2(variant, r.props2) ELSE out2
        /\ c2Renders' = IF run2 THEN c2Renders + 1 ELSE c2Renders

ChangeName ==
    /\ nameEdits + surnameEdits < MaxEdits
    /\ \E v \in InputValues(name) :
          LET e == [target |-> "name", value |-> v]
          IN  /\ event' = e
              /\ Update(NameOnChange([name |-> name, surname |-> surname], e))
    /\ nameEdits' = nameEdits + 1
    /\ UNCHANGED <<variant, memo1, surnameEdits>>

ChangeSurname ==
    /\ nameEdits + surnameEdits < MaxEdits
    /\ \E v \in InputValues(surname) :
          LET e == [target |-> "surname", value |-> v]
          IN  /\ event' = e
              /\ Update(SurnameOnChange([name |-> name, surname |-> surname], e))
    /\ surnameEdits' = surnameEdits + 1
    /\ UNCHANGED <<variant, memo1, nameEdits>>

\* The page after mount: both cells are '', every component has run once.
Init ==
    /\ variant \in Variants
    /\ memo1 \in BOOLEAN
    /\ variant = "plain" => ~memo1
    /\ variant = "memo" => memo1
    /\ name = <<>>
    /\ surname = <<>>
    /\ LET r == Home(variant, <<>>, <<>>, [memo |-> NoHook, callback |-> NoHook], 1)
       IN  /\ hooks = r.hooks
           /\ nextRef = r.nextRef
           /\ props1 = r.props1
           /\ props2 = r.props2
           /\ prev1 = r.props1
           /\ prev2 = r.props2
           /\ out1 = Component1(r.props1)
           /\ out2 = RenderComponent2(variant, r.props2)
    /\ homeRenders = 1
    /\ c1Renders = 1
    /\ c2Renders = 1
    /\ event = [target |-> "none", value |-> <<>>]
    /\ nameEdits = 0
    /\ surnameEdits = 0

Next == ChangeName \/ ChangeSurname

Spec == Init /\ [][Next]_vars

----------------------------------------------------------------------------
(* Properties *)

MemoizedVariants == {"memo", "useMemo", "final"}

NaiveVariants == {"inlineData", "constData", "inlineFunc"}

Doe == <<"D", "o", "e">>

\* C1: in the memoized versions (memo-wrapped Component2 with stable props)
\* an edit of the name field never runs Component2: its render count after
\* the edit equals its render count before it, from every reachable state.
C1_NameEditKeepsComponent2Count ==
    [][(variant \in MemoizedVariants /\ nameEdits' # nameEdits) => c2Renders' = c2Renders]_vars

C1_Witness ==
    /\ variant = "final"
    /\ event.target = "name"
    /\ nameEdits = MaxEdits - 1
    /\ surnameEdits = 1
    /\ c2Renders < homeRenders - nameEdits + 1

\* C2: in every version, after each update cycle Component1 shows the
\* current name and Component2 shows the current surname and the JSON text
\* of the data prop it is currently given: a skipped render never leaves a
\* stale display.
C2_DisplayMatchesCurrentProps ==
    /\ props1.name = Str(name)
    /\ out1.p[2] = name
    /\ props2.surname = Str(surname)
    /\ out2.p[2] = surname
    /\ variant \notin {"plain", "memo"} => out2.data = <<"Data: ", JSONStringify(props2.data)>>

C2_Witness ==
    /\ variant = "useMemo"
    /\ memo1
    /\ name # <<>>
    /\ surname # <<>>
    /\ c1Renders < homeRenders
    /\ c2Renders < homeRenders

\* C3: both cells start as the empty string; a change event of the name
\* input sets name to the event's value and leaves surname alone, a change
\* event of the surname input sets surname and leaves name alone, and no
\* other step modifies either cell.
C3_EditSetsExactlyItsCell ==
    /\ name = <<>> /\ surname = <<>>
    /\ [][/\ nameEdits' # nameEdits =>
                (event'.target = "name" /\ name' = event'.value /\ surname' = surname)
          /\ surnameEdits' # surnameEdits =>
                (event'.target = "surname" /\ surname' = event'.value /\ name' = name)
          /\ name' # name => nameEdits' # nameEdits
          /\ surname' # surname => surnameEdits' # surnameEdits]_vars

C3_Witness ==
    /\ event.target = "name"
    /\ name = <<"e">>
    /\ surname = <<"D", "o">>
    /\ nameEdits = 2

\* C4: in the final version the Component2 renders caused by edits number
\* the surname edits, not the runs of Home; typing "D", "Do", "Doe" gives 3.
C4_Component2CountIsSurnameEdits ==
    variant = "final" =>
        /\ c2Renders - 1 = surnameEdits
        /\ homeRenders - 1 = nameEdits + surnameEdits

C4_Witness ==
    /\ variant = "final"
    /\ surname = Doe
    /\ surnameEdits = Len(Doe)
    /\ nameEdits >= 1
    /\ c2Renders - 1 = Len(Doe)
    /\ homeRenders - 1 > Len(Doe)

\* C5: in the naive versions (a fresh object or a fresh function passed on
\* every run of Home) every edit of either field runs the memo-wrapped
\* Component2 exactly once.
C5_NaiveRendersOnEveryEdit ==
    [][(variant \in NaiveVariants /\ homeRenders' # homeRenders) =>
            c2Renders' = c2Renders + 1]_vars

C5_Witness ==
    /\ variant = "inlineFunc"
    /\ surnameEdits = 0
    /\ nameEdits >= 2
    /\ c2Renders = homeRenders

\* C6: round trip: the text a change event carries is exactly the text the
\* matching leaf displays after the update, untransformed and untruncated.
C6_DisplayedValueIsEnteredValue ==
    /\ event.target = "name" => out1.p[2] = event.value
    /\ event.target = "surname" => out2.p[2] = event.value

C6_Witness ==
    /\ event = [target |-> "surname", value |-> Doe]
    /\ out2.p = <<"Surname: ", Doe>>
    /\ IsMemo2(variant)

\* C7: a memo-wrapped leaf supplied, twice in succession, with props that
\* are shallowly equal (same primitive values, same object and function
\* references) does not run again: no new log line, same output.
C7_SamePropsRenderOnce ==
    [][/\ (IsMemo2(variant) /\ ShallowEqual(props2, props2')) =>
              (c2Renders' = c2Renders /\ out2' = out2)
       /\ (memo1 /\ ShallowEqual(props1, props1')) =>
              (c1Renders' = c1Renders /\ out1' = out1)]_vars

C7_Witness ==
    /\ variant = "final"
    /\ memo1
    /\ nameEdits >= 1
    /\ surnameEdits >= 1
    /\ ShallowEqual(prev2, props2)
    /\ c1Renders < homeRenders
    /\ c2Renders < homeRenders

\* C8: with useMemo the data reference passed to Component2 is the one of
\* the previous run of Home exactly when surname did not change between the
\* two runs, and a fresh one otherwise; without useMemo every run of Home
\* passes a fresh reference.
C8_DataReferenceFollowsSurname ==
    [][homeRenders' # homeRenders =>
          /\ variant \in UseMemoVariants =>
                /\ (surname' = surname) <=> (props2'.data.ref = props2.data.ref)
                /\ surname' # surname => props2'.data.ref >= nextRef
          /\ variant \in FreshDataVariants =>
                /\ props2'.data.ref # props2.data.ref
                /\ props2'.data.ref >= nextRef]_vars

C8_Witness ==
    /\ variant = "useMemo"
    /\ event.target = "name"
    /\ surnameEdits >= 2
    /\ props2.data.ref > 1
    /\ props2.data = hooks.memo.value

\* C9: with useCallback and an empty dependency list, func is the same
\* reference on every run of Home; passed inline it is a fresh reference on
\* every run of Home.
C9_FuncReferenceStable ==
    [][homeRenders' # homeRenders =>
          /\ variant = "final" => props2'.func.ref = props2.func.ref
          /\ variant = "inlineFunc" =>
                /\ props2'.func.ref # props2.func.ref
                /\ props2'.func.ref >= nextRef]_vars

C9_Witness ==
    /\ variant = "final"
    /\ nameEdits >= 1
    /\ surnameEdits >= 2
    /\ props2.func = hooks.callback.value
    /\ props2.func.ref < props2.data.ref

\* C10: with useMemo, on every run of Home the cached object passed to
\* Component2 is { surname: <current surname> }: never one built from an
\* older surname than the surname prop passed alongside it.
C10_CachedDataIsCurrent ==
    variant \in UseMemoVariants =>
        /\ props2.data.v = << <<"surname", surname>> >>
        /\ props2.data.v = << <<"surname", props2.surname.v>> >>
        /\ hooks.memo.deps = <<Str(surname)>>

C10_Witness ==
    /\ variant = "inlineFunc"
    /\ nameEdits >= 1
    /\ surnameEdits >= 2
    /\ surname = <<"o", "e">>
    /\ props2.data.v = << <<"surname", <<"o", "e">> >> >>

====
